---- MODULE Spec2Model ----
(***************************************************************************)
(* Model of the amazon-inventory-planner: the reorder engine               *)
(* (compute_from_last_months), the calendar window resolver                *)
(* (last_n_calendar_months) and the store-backed caller (compute_for_sku,  *)
(* upsert, product_detail, plan, export_plan_xlsx) of src/main.py and      *)
(* src/calc.py.                                                            *)
(*                                                                         *)
(* EngineSpec and CalendarSpec apply the two pure functions to bounded     *)
(* inputs.  Spec runs the handlers one request at a time for one SKU.      *)
(* SellersSpec has two signed-in sellers and two SKUs.  ConcSpec takes     *)
(* compute_for_sku statement by statement among concurrent commits.        *)
(*                                                                         *)
(* Python floats are modelled as exact reals of the form (q + c*sqrt(r))/d *)
(* with integers q, c, r, d, kept in a canonical form so that two values   *)
(* are equal exactly when their records are equal.  Rounding of the        *)
(* floating-point operations is not modelled.                              *)
(***************************************************************************)
EXTENDS Integers, Sequences, FiniteSets, TLC

VARIABLES
    pc,             \* position of the function-call harness, "serving" for the application
    call,           \* arguments of the engine call under evaluation
    res,            \* what the engine call produced
    cal,            \* arguments of the resolver call under evaluation
    months_out,     \* what the resolver call produced
    today,          \* the clock: <<year, month>> of date.today()
    products,       \* table products: a set of rows, UNIQUE(sku)
    monthly_sales,  \* table monthly_sales: a set of rows, UNIQUE(sku, year, month)
    response,       \* the response of the last request
    reader,         \* locals of a compute_for_sku call running statement by statement
    committed       \* the committed stores such a call has run against so far

vars ==
    <<pc, call, res, cal, months_out, today, products, monthly_sales, response,
      reader, committed>>

(***************************************************************************)
(* Bounds of the model.                                                    *)
(***************************************************************************)
MaxLen == 3
MaxUnits == 2
MaxLead == 2
MaxStock == 3
MaxInbound == 1
MaxN == 6

(***************************************************************************)
(* Literals of the source.                                                 *)
(***************************************************************************)
DaysPerMonth == 30
PlanDays == 60
WindowMonths == 3
TrendMonths == 6

(***************************************************************************)
(* Exact arithmetic standing for Python's float arithmetic.                *)
(***************************************************************************)
Abs(i) == IF i < 0 THEN 0 - i ELSE i

Sgn(i) == IF i < 0 THEN 0 - 1 ELSE IF i = 0 THEN 0 ELSE 1

RECURSIVE GCD(_, _)
GCD(a, b) == IF b = 0 THEN a ELSE GCD(b, a % b)

\* the largest k >= from with k*k dividing r, or 1 when there is none
RECURSIVE SquarePartFrom(_, _)
SquarePartFrom(r, from) ==
    IF from * from > r THEN 1
    ELSE LET above == SquarePartFrom(r, from + 1)
         IN  IF above > 1 THEN above
             ELSE IF r % (from * from) = 0 THEN from ELSE 1

\* canonical form of (q + c*sqrt(r))/d, for r >= 0 and d # 0
Norm(q, c, r, d) ==
    LET k  == IF r = 0 THEN 1 ELSE SquarePartFrom(r, 2)
        r1 == IF r = 0 THEN 1 ELSE r \div (k * k)
        c1 == IF r = 0 THEN 0 ELSE c * k
        q2 == IF r1 = 1 THEN q + c1 ELSE q
        c2 == IF r1 = 1 THEN 0 ELSE c1
        r2 == IF c2 = 0 THEN 1 ELSE r1
        s  == IF d < 0 THEN 0 - 1 ELSE 1
        g  == GCD(GCD(Abs(q2), Abs(c2)), Abs(d))
    IN  [q |-> (s * q2) \div g, c |-> (s * c2) \div g, r |-> r2, d |-> Abs(d) \div g]

Rat(p, q) == Norm(p, 0, 1, q)

R(i) == Rat(i, 1)

Zero == R(0)

IsRational(x) == x.c = 0

RSign(x) ==
    IF x.c = 0 THEN Sgn(x.q)
    ELSE IF x.q = 0 THEN Sgn(x.c)
    ELSE IF Sgn(x.q) = Sgn(x.c) THEN Sgn(x.q)
    ELSE LET g == GCD(Abs(x.q), Abs(x.c))
             a == Abs(x.q) \div g
             b == Abs(x.c) \div g
         IN  IF a * a > b * b * x.r THEN Sgn(x.q) ELSE Sgn(x.c)

\* x + y; the operands hold at most one irrational square root between them
RAdd(x, y) ==
    CASE x.c = 0 -> Norm(x.q * y.d + y.q * x.d, y.c * x.d, y.r, x.d * y.d)
      [] y.c = 0 -> Norm(x.q * y.d + y.q * x.d, x.c * y.d, x.r, x.d * y.d)
      [] x.c # 0 /\ y.c # 0 /\ x.r = y.r ->
            Norm(x.q * y.d + y.q * x.d, x.c * y.d + y.c * x.d, x.r, x.d * y.d)

RNeg(x) == [x EXCEPT !.q = 0 - x.q, !.c = 0 - x.c]

RSub(x, y) == RAdd(x, RNeg(y))

\* x * y; one operand is rational, or both are pure square roots
RMul(x, y) ==
    CASE x.c = 0 -> Norm(x.q * y.q, x.q * y.c, y.r, x.d * y.d)
      [] y.c = 0 -> Norm(x.q * y.q, x.c * y.q, x.r, x.d * y.d)
      [] x.c # 0 /\ y.c # 0 /\ x.q = 0 /\ y.q = 0 ->
            Norm(0, x.c * y.c, x.r * y.r, x.d * y.d)

\* x / y for a rational y # 0
RDiv(x, y) == RMul(x, Rat(y.d, y.q))

RLess(x, y) == RSign(RSub(y, x)) > 0

RLeq(x, y) == RSign(RSub(y, x)) >= 0

\* math.sqrt of a rational x >= 0
RSqrt(x) == Norm(0, 1, x.q * x.d, x.d)

\* Python's max(a, b): the first argument unless the second is greater
\* round() of a non-negative x, searching upwards from n: the nearest integer,
\* a tie going to the even neighbour
RECURSIVE round_from(_, _)
round_from(x, n) ==
    IF RLess(x, Rat(2 * n + 1, 2)) THEN n
    ELSE IF x = Rat(2 * n + 1, 2) THEN (IF n % 2 = 0 THEN n ELSE n + 1)
    ELSE round_from(x, n + 1)

\* int(round(x))
round(x) == IF RSign(x) >= 0 THEN round_from(x, 0) ELSE 0 - round_from(RNeg(x), 0)

RMax(a, b) == IF RLess(a, b) THEN b ELSE a

RECURSIVE SumSeq(_)
SumSeq(s) == IF s = <<>> THEN 0 ELSE Head(s) + SumSeq(Tail(s))

\* sum of (n*x - S)^2 over the elements x of s
RECURSIVE SumSqDev(_, _, _)
SumSqDev(s, n, S) ==
    IF s = <<>> THEN 0
    ELSE (n * Head(s) - S) * (n * Head(s) - S) + SumSqDev(Tail(s), n, S)

\* stdev with the population (n) denominator
stdev_population(data) ==
    LET n == Len(data)
        S == SumSeq(data)
    IN  RSqrt(Rat(SumSqDev(data, n, S), n * n * n))

\* sum of (x - first)^2 over the elements x of s
RECURSIVE SumSqFromFirst(_, _)
SumSqFromFirst(s, first) ==
    IF s = <<>> THEN 0
    ELSE (Head(s) - first) * (Head(s) - first) + SumSqFromFirst(Tail(s), first)

\* stdev with the deviations taken from the first observation, not the mean
stdev_from_first(data) ==
    RSqrt(Rat(SumSqFromFirst(data, data[1]), Len(data) - 1))

\* statistics.stdev: the square root of the sample variance (n - 1 denominator)
stdev(data) ==
    LET n == Len(data)
        S == SumSeq(data)
    IN  RSqrt(Rat(SumSqDev(data, n, S), n * n * (n - 1)))

(***************************************************************************)
(* Calculation engine: compute_from_last_months.                           *)
(***************************************************************************)
\* mean_month over an assumed full window, missing months counted as zero
mean_month_full_window(monthly_units) == RDiv(R(SumSeq(monthly_units)), R(WindowMonths))

mean_month(monthly_units) == RDiv(R(SumSeq(monthly_units)), R(Len(monthly_units)))

daily_velocity(monthly_units) == RDiv(mean_month(monthly_units), R(DaysPerMonth))

std_daily(monthly_units) ==
    IF Len(monthly_units) < 2 THEN Zero
    ELSE RDiv(stdev(monthly_units), R(DaysPerMonth))

\* math.sqrt(lead_time) raises ValueError for a negative argument
sqrt_raises(lead_time) == lead_time < 0

safety_stock(z, sd, lead_time) == RMul(RMul(z, sd), RSqrt(R(lead_time)))

\* rop without the safety stock
rop_no_safety(dv, lead_time, ss) == RMul(dv, R(lead_time))

rop(dv, lead_time, ss) == RAdd(RMul(dv, R(lead_time)), ss)

\* order_qty without the clamp at 0
order_qty_unclamped(dv, ss, fba_stock, inbound_stock) ==
    RSub(RAdd(RMul(dv, R(PlanDays)), ss), R(fba_stock + inbound_stock))

\* order_qty over a one-month horizon
order_qty_one_month(dv, ss, fba_stock, inbound_stock) ==
    RMax(Zero, RSub(RAdd(RMul(dv, R(DaysPerMonth)), ss), R(fba_stock + inbound_stock)))

\* order_qty net of the FBA stock only
order_qty_fba_only(dv, ss, fba_stock, inbound_stock) ==
    RMax(Zero, RSub(RAdd(RMul(dv, R(PlanDays)), ss), R(fba_stock)))

order_qty(dv, ss, fba_stock, inbound_stock) ==
    RMax(Zero, RSub(RAdd(RMul(dv, R(PlanDays)), ss), R(fba_stock + inbound_stock)))

EmptyResult ==
    [status |-> "ok", daily_velocity |-> Zero, std_daily |-> Zero,
     safety_stock |-> Zero, rop |-> Zero, order_qty |-> Zero]

Raised(e) == [status |-> e]

\* the engine taking the square root before it looks at the list
compute_sqrt_first(lead_time, z, monthly_units, fba_stock, inbound_stock) ==
    IF sqrt_raises(lead_time) THEN Raised("ValueError")
    ELSE IF monthly_units = <<>> THEN EmptyResult
    ELSE LET dv == daily_velocity(monthly_units)
             sd == std_daily(monthly_units)
             ss == safety_stock(z, sd, lead_time)
         IN  [status |-> "ok", daily_velocity |-> dv, std_daily |-> sd,
              safety_stock |-> ss, rop |-> rop(dv, lead_time, ss),
              order_qty |-> order_qty(dv, ss, fba_stock, inbound_stock)]

compute_from_last_months(lead_time, z, monthly_units, fba_stock, inbound_stock) ==
    IF monthly_units = <<>> THEN EmptyResult
    ELSE IF sqrt_raises(lead_time) THEN Raised("ValueError")
    ELSE LET dv == daily_velocity(monthly_units)
             sd == std_daily(monthly_units)
             ss == safety_stock(z, sd, lead_time)
         IN  [status |-> "ok", daily_velocity |-> dv, std_daily |-> sd,
              safety_stock |-> ss, rop |-> rop(dv, lead_time, ss),
              order_qty |-> order_qty(dv, ss, fba_stock, inbound_stock)]

(***************************************************************************)
(* Date helper: last_n_calendar_months.                                    *)
(***************************************************************************)
\* prev_month that wraps the month and keeps the year
prev_month_same_year(y, m) == IF m - 1 = 0 THEN <<y, 12>> ELSE <<y, m - 1>>

\* one pass of the loop body after the append: m -= 1, wrapping into December
prev_month(y, m) == IF m - 1 = 0 THEN <<y - 1, 12>> ELSE <<y, m - 1>>

RECURSIVE months_loop(_, _, _, _)
months_loop(k, y, m, out) ==
    IF k <= 0 THEN out
    ELSE LET p == prev_month(y, m)
         IN  months_loop(k - 1, p[1], p[2], Append(out, <<y, m>>))

\* day is the <<year, month>> of date.today()
last_n_calendar_months(n, day) == months_loop(n, day[1], day[2], <<>>)

(***************************************************************************)
(* Inputs of the function-call harnesses.                                  *)
(***************************************************************************)
RECURSIVE SeqsUpTo(_, _)
SeqsUpTo(S, n) ==
    IF n = 0 THEN {<<>>}
    ELSE LET shorter == SeqsUpTo(S, n - 1)
         IN  shorter \cup {Append(s, x) : s \in shorter, x \in S}

LeadTimes == {0 - 1} \cup (0 .. MaxLead)

ZValues == {Rat(0 - 1, 1), R(0), R(1), Rat(33, 20)}

UnitLists == SeqsUpTo(0 .. MaxUnits, MaxLen)

Stocks == 0 .. MaxStock

EngineInputs ==
    [lead_time : LeadTimes, z : ZValues, monthly_units : UnitLists,
     fba_stock : Stocks, inbound_stock : 0 .. MaxInbound]

Days == {2023, 2024} \X (1 .. 12)

CalendarInputs == [n : 0 .. MaxN, day : Days]

MaxRows == 2
MaxTicks == 1

\* committed stores one compute_for_sku call may run against
MaxSnapshots == 2

NoRow == [row |-> FALSE]

SKUS == {"A"}

StartDay == <<2024, 1>>

FormMonths == {<<2023, 11>>, <<2023, 12>>, <<2024, 1>>}

FormUnits == {0, 2}

FormLeadTimes == {0 - 1, 1}

FormZ == {R(1)}

FormFba == {0, 3}

FormInbound == {0}

NoCall ==
    [lead_time |-> 1, z |-> R(0), monthly_units |-> <<>>,
     fba_stock |-> 0, inbound_stock |-> 0]

Idle ==
    /\ call = NoCall
    /\ res = [status |-> "pending"]
    /\ cal = [n |-> 0, day |-> StartDay]
    /\ months_out = <<>>

\* no compute_for_sku call is in flight
NoReader == [at |-> "idle"]

\* the tables after init_db, before any request
EmptyStore ==
    /\ today = StartDay
    /\ products = {}
    /\ monthly_sales = {}
    /\ response = [kind |-> "none"]
    /\ reader = NoReader
    /\ committed = {}

(***************************************************************************)
(* EngineSpec: the engine applied to every input of EngineInputs.          *)
(***************************************************************************)
InitEngine ==
    /\ pc = "engine_call"
    /\ call \in EngineInputs
    /\ res = [status |-> "pending"]
    /\ cal = [n |-> 0, day |-> StartDay]
    /\ months_out = <<>>
    /\ EmptyStore

EngineCall ==
    /\ pc = "engine_call"
    /\ res' = compute_from_last_months(call.lead_time, call.z, call.monthly_units,
                                       call.fba_stock, call.inbound_stock)
    /\ pc' = "engine_done"
    /\ UNCHANGED <<call, cal, months_out, today, products, monthly_sales, response,
                   reader, committed>>

NextEngine == EngineCall

EngineSpec == InitEngine /\ [][NextEngine]_vars

(***************************************************************************)
(* CalendarSpec: the resolver applied to every input of CalendarInputs.    *)
(***************************************************************************)
InitCalendar ==
    /\ pc = "calendar_call"
    /\ cal \in CalendarInputs
    /\ months_out = <<>>
    /\ call = NoCall
    /\ res = [status |-> "pending"]
    /\ EmptyStore

CalendarCall ==
    /\ pc = "calendar_call"
    /\ months_out' = last_n_calendar_months(cal.n, cal.day)
    /\ pc' = "calendar_done"
    /\ UNCHANGED <<call, res, cal, today, products, monthly_sales, response,
                   reader, committed>>

NextCalendar == CalendarCall

CalendarSpec == InitCalendar /\ [][NextCalendar]_vars

(***************************************************************************)
(* DB operations of src/main.py.                                           *)
(***************************************************************************)
upsert_product(P, sku, lead_time_days, z_value, fba_stock, inbound_stock) ==
    LET new == [sku |-> sku, lead_time_days |-> lead_time_days, z_value |-> z_value,
                fba_stock |-> fba_stock, inbound_stock |-> inbound_stock]
    IN  IF \E r \in P : r.sku = sku
        THEN {IF r.sku = sku THEN new ELSE r : r \in P}
        ELSE P \cup {new}

\* one INSERT ... ON CONFLICT(sku, year, month) DO UPDATE
upsert_sales_row(M, sku, y, m, u) ==
    IF \E r \in M : r.sku = sku /\ r.year = y /\ r.month = m
    THEN {IF r.sku = sku /\ r.year = y /\ r.month = m
          THEN [r EXCEPT !.units_sold = u] ELSE r : r \in M}
    ELSE M \cup {[sku |-> sku, year |-> y, month |-> m, units_sold |-> u]}

Min(a, b) == IF a < b THEN a ELSE b

\* the loop over zip(years, months, units_sold), from row i on
RECURSIVE upsert_rows_from(_, _, _, _, _, _)
upsert_rows_from(M, sku, years, months, units_sold, i) ==
    IF i > Min(Len(years), Min(Len(months), Len(units_sold))) THEN M
    ELSE upsert_rows_from(upsert_sales_row(M, sku, years[i], months[i], units_sold[i]),
                          sku, years, months, units_sold, i + 1)

upsert_monthly_sales(M, sku, years, months, units_sold) ==
    upsert_rows_from(M, sku, years, months, units_sold, 1)

fetch_product(sku) ==
    IF \E r \in products : r.sku = sku
    THEN [row |-> TRUE, val |-> CHOOSE r \in products : r.sku = sku]
    ELSE NoRow

fetch_month_units(sku, y, m) ==
    IF \E r \in monthly_sales : r.sku = sku /\ r.year = y /\ r.month = m
    THEN [row |-> TRUE,
          val |-> (CHOOSE r \in monthly_sales :
                      r.sku = sku /\ r.year = y /\ r.month = m).units_sold]
    ELSE NoRow

\* the loop of compute_for_sku with a missing month counted as 0
RECURSIVE monthly_units_zero_filled(_, _)
monthly_units_zero_filled(sku, window) ==
    IF window = <<>> THEN <<>>
    ELSE LET u == fetch_month_units(sku, Head(window)[1], Head(window)[2])
         IN  <<IF u.row THEN u.val ELSE 0>> \o monthly_units_zero_filled(sku, Tail(window))

\* the loop of compute_for_sku over last3: found values only, in window order
RECURSIVE monthly_units_found(_, _)
monthly_units_found(sku, window) ==
    IF window = <<>> THEN <<>>
    ELSE LET u    == fetch_month_units(sku, Head(window)[1], Head(window)[2])
             rest == monthly_units_found(sku, Tail(window))
         IN  IF u.row THEN <<u.val>> \o rest ELSE rest

\* compute_for_sku answering from the window of the start-up month
compute_for_sku_stale(sku, day) ==
    LET prod == fetch_product(sku)
    IN  IF ~prod.row THEN [found |-> FALSE]
        ELSE LET last3 == last_n_calendar_months(WindowMonths, StartDay)
                 found == monthly_units_found(sku, last3)
             IN  [found |-> TRUE, prod |-> prod.val, last3 |-> last3,
                  monthly_units_found |-> found,
                  res |-> compute_from_last_months(
                              prod.val.lead_time_days, prod.val.z_value, found,
                              prod.val.fba_stock, prod.val.inbound_stock)]

compute_for_sku(sku, day) ==
    LET prod == fetch_product(sku)
    IN  IF ~prod.row THEN [found |-> FALSE]
        ELSE LET last3 == last_n_calendar_months(WindowMonths, day)
                 found == monthly_units_found(sku, last3)
             IN  [found |-> TRUE, prod |-> prod.val, last3 |-> last3,
                  monthly_units_found |-> found,
                  res |-> compute_from_last_months(
                              prod.val.lead_time_days, prod.val.z_value, found,
                              prod.val.fba_stock, prod.val.inbound_stock)]

\* units6 of product_detail: the 6-month trend, missing months shown as 0
RECURSIVE units_or_zero(_, _)
units_or_zero(sku, window) ==
    IF window = <<>> THEN <<>>
    ELSE LET u == fetch_month_units(sku, Head(window)[1], Head(window)[2])
         IN  <<IF u.row THEN u.val ELSE 0>> \o units_or_zero(sku, Tail(window))

Reverse(s) == [i \in 1 .. Len(s) |-> s[Len(s) + 1 - i]]

(***************************************************************************)
(* Request handlers.                                                       *)
(***************************************************************************)
FormRows ==
    {[year |-> d[1], month |-> d[2], units_sold |-> u] : d \in FormMonths, u \in FormUnits}

FormRowLists == SeqsUpTo(FormRows, MaxRows) \ {<<>>}

\* conn.commit() seen from a compute_for_sku call in flight on another
\* connection: the store P, M becomes one more committed store the call runs
\* against
seen_by_reader(P, M) ==
    IF reader.at = "idle" THEN committed
    ELSE committed \cup {[products |-> P, monthly_sales |-> M]}

\* POST /upsert with the product written and committed before the length check
upsert_product_first(sku, lead_time_days, z_value, fba_stock, inbound_stock, years, months, units_sold) ==
    /\ pc = "serving"
    /\ products' = upsert_product(products, sku, lead_time_days, z_value,
                                  fba_stock, inbound_stock)
    /\ IF ~(Len(years) = Len(months) /\ Len(months) = Len(units_sold))
       THEN /\ response' = [kind |-> "error", status_code |-> 400]
            /\ UNCHANGED monthly_sales
       ELSE /\ monthly_sales' = upsert_monthly_sales(monthly_sales, sku, years,
                                                     months, units_sold)
            /\ response' = [kind |-> "redirect", status_code |-> 303, sku |-> sku]
    /\ committed' = seen_by_reader(products', monthly_sales')
    /\ UNCHANGED <<pc, call, res, cal, months_out, today, reader>>

\* POST /upsert
upsert(sku, lead_time_days, z_value, fba_stock, inbound_stock, years, months, units_sold) ==
    /\ pc = "serving"
    /\ IF ~(Len(years) = Len(months) /\ Len(months) = Len(units_sold))
       THEN /\ response' = [kind |-> "error", status_code |-> 400]
            /\ UNCHANGED <<products, monthly_sales>>
       ELSE /\ products' = upsert_product(products, sku, lead_time_days, z_value,
                                          fba_stock, inbound_stock)
            /\ monthly_sales' = upsert_monthly_sales(monthly_sales, sku, years,
                                                     months, units_sold)
            /\ response' = [kind |-> "redirect", status_code |-> 303, sku |-> sku]
    /\ committed' = seen_by_reader(products', monthly_sales')
    /\ UNCHANGED <<pc, call, res, cal, months_out, today, reader>>

\* GET /product/{sku}
product_detail(sku) ==
    /\ pc = "serving"
    /\ LET computed == compute_for_sku(sku, today)
       IN  response' =
             IF ~computed.found THEN [kind |-> "not_found", sku |-> sku]
             ELSE IF computed.res.status # "ok"
             THEN [kind |-> "error", status_code |-> 500]
             ELSE [kind |-> "detail", sku |-> sku, last3 |-> computed.last3,
                   monthly_found |-> computed.monthly_units_found,
                   res |-> computed.res,
                   units6 |-> units_or_zero(sku,
                                Reverse(last_n_calendar_months(TrendMonths, today)))]
    /\ UNCHANGED <<pc, call, res, cal, months_out, today, products, monthly_sales,
                   reader, committed>>

\* the loop of plan(): a row for every stored SKU whose rounded order quantity
\* is positive
plan_rows ==
    {[sku |-> p.sku, order_qty |-> round(compute_for_sku(p.sku, today).res.order_qty)] :
        p \in {q \in products : round(compute_for_sku(q.sku, today).res.order_qty) > 0}}

\* GET /plan
plan ==
    /\ pc = "serving"
    /\ response' =
          IF \E p \in products : compute_for_sku(p.sku, today).res.status # "ok"
          THEN [kind |-> "error", status_code |-> 500]
          ELSE [kind |-> "plan", rows |-> plan_rows]
    /\ UNCHANGED <<pc, call, res, cal, months_out, today, products, monthly_sales,
                   reader, committed>>

\* the loop of export_plan_xlsx() with the rounding left out of the test
export_rows_unrounded ==
    {[sku |-> p.sku, order_qty |-> round(compute_for_sku(p.sku, today).res.order_qty)] :
        p \in {q \in products : RSign(compute_for_sku(q.sku, today).res.order_qty) > 0}}

\* the loop of export_plan_xlsx(): a sheet row for every stored SKU whose
\* rounded order quantity is positive
export_rows ==
    {[sku |-> p.sku, order_qty |-> round(compute_for_sku(p.sku, today).res.order_qty)] :
        p \in {q \in products : ~(round(compute_for_sku(q.sku, today).res.order_qty) <= 0)}}

\* GET /export/plan.xlsx
export_plan_xlsx ==
    /\ pc = "serving"
    /\ response' =
          IF \E p \in products : compute_for_sku(p.sku, today).res.status # "ok"
          THEN [kind |-> "error", status_code |-> 500]
          ELSE [kind |-> "plan_export", rows |-> export_rows]
    /\ UNCHANGED <<pc, call, res, cal, months_out, today, products, monthly_sales,
                   reader, committed>>

MonthIndex(day) == day[1] * 12 + (day[2] - 1)

\* the calendar moves on to the next month
Tick ==
    /\ pc = "serving"
    /\ MonthIndex(today) - MonthIndex(StartDay) < MaxTicks
    /\ today' = IF today[2] = 12 THEN <<today[1] + 1, 1>> ELSE <<today[1], today[2] + 1>>
    /\ UNCHANGED <<pc, call, res, cal, months_out, products, monthly_sales, response,
                   reader, committed>>

\* the three form lists of a request: the rows' columns, one list a value longer
\* when the request is malformed
Column(rows, f, longer) ==
    LET col == [i \in 1 .. Len(rows) |-> rows[i][f]]
    IN  IF longer = f THEN Append(col, col[1]) ELSE col

Upsert ==
    \E sku \in SKUS, lt \in FormLeadTimes, zv \in FormZ, fba \in FormFba,
       inb \in FormInbound, rows \in FormRowLists,
       longer \in {"none", "year", "month", "units_sold"} :
        /\ longer = "none" \/ Len(rows) = 1
        /\ upsert(sku, lt, zv, fba, inb, Column(rows, "year", longer),
                  Column(rows, "month", longer), Column(rows, "units_sold", longer))

ProductDetail == \E sku \in SKUS : product_detail(sku)

Init == pc = "serving" /\ Idle /\ EmptyStore

Next == Upsert \/ ProductDetail \/ Tick

Spec == Init /\ [][Next]_vars

(***************************************************************************)
(* SellersSpec: two signed-in sellers send one-row upserts for two SKUs    *)
(* to the same deployment.                                                 *)
(***************************************************************************)
\* session user ids (auth.py login_user)
OWNERS == {1, 2}

SellerSKUS == {"A", "B"}

SellerMonths == {<<2023, 12>>, <<2024, 1>>}

SellerFba == {0, 2}

SellerRows ==
    {[year |-> d[1], month |-> d[2], units_sold |-> u] : d \in SellerMonths, u \in FormUnits}

\* POST /upsert sent with the session of user_id: the handler takes no Request
\* and reads no session, so the user id reaches no statement
upsert_as(user_id, sku, lead_time_days, z_value, fba_stock, inbound_stock, years, months, units_sold) ==
    upsert(sku, lead_time_days, z_value, fba_stock, inbound_stock, years, months,
           units_sold)

UpsertAs(user_id) ==
    \E sku \in SellerSKUS, lt \in FormLeadTimes, zv \in FormZ, fba \in SellerFba,
       inb \in FormInbound, row \in SellerRows :
        upsert_as(user_id, sku, lt, zv, fba, inb, <<row.year>>, <<row.month>>,
                  <<row.units_sold>>)

\* the sales observation a request of owner reads for (sku, y, m): the table
\* has no owner column and the query filters by sku, year and month only
observation(owner, sku, y, m) == fetch_month_units(sku, y, m)

\* the product parameters a request of owner reads for sku
product_of(owner, sku) == fetch_product(sku)

\* what a request of owner is shown for sku: product_detail, products and plan
\* all go through compute_for_sku(cur, sku), which takes no owner
visible_to(owner, sku) == compute_for_sku(sku, today)

Plan == plan

ExportPlan == export_plan_xlsx

NextSellers == (\E user_id \in OWNERS : UpsertAs(user_id)) \/ Plan \/ ExportPlan

SellersSpec == Init /\ [][NextSellers]_vars

(***************************************************************************)
(* ConcSpec: one compute_for_sku call taken statement by statement, as the *)
(* thread pool runs it, while upsert requests of other threads commit.     *)
(* Every SELECT of the call is a statement of its own on a connection      *)
(* with no open transaction, so it reads the store committed at that       *)
(* moment.                                                                 *)
(***************************************************************************)
\* requests that record both months of SellerMonths at once
BothMonthsRows ==
    {<<[year |-> 2024, month |-> 1, units_sold |-> u],
       [year |-> 2023, month |-> 12, units_sold |-> v]>> : u \in FormUnits, v \in FormUnits}

\* prod = fetch_product(cur, sku); if not prod: return None, None, None, None
compute_fetch_product(sku) ==
    /\ pc = "serving"
    /\ reader.at = "idle"
    /\ LET prod == fetch_product(sku)
       IN  reader' = IF ~prod.row THEN [at |-> "done", sku |-> sku, found |-> FALSE]
                     ELSE [at |-> "fetch_month", sku |-> sku, found |-> TRUE,
                           prod |-> prod.val,
                           last3 |-> last_n_calendar_months(WindowMonths, today),
                           i |-> 1, monthly_units_found |-> <<>>]
    /\ committed' = {[products |-> products, monthly_sales |-> monthly_sales]}
    /\ UNCHANGED <<pc, call, res, cal, months_out, today, products, monthly_sales,
                   response>>

\* one round of the loop: u = fetch_month_units(cur, sku, y, m)
compute_fetch_month ==
    /\ pc = "serving"
    /\ reader.at = "fetch_month"
    /\ LET u == fetch_month_units(reader.sku, reader.last3[reader.i][1],
                                  reader.last3[reader.i][2])
       IN  reader' = [reader EXCEPT
                        !.monthly_units_found = IF u.row THEN Append(@, u.val) ELSE @,
                        !.i = @ + 1,
                        !.at = IF reader.i = Len(reader.last3) THEN "engine" ELSE @]
    /\ UNCHANGED <<pc, call, res, cal, months_out, today, products, monthly_sales,
                   response, committed>>

\* res = compute_from_last_months(...); return prod, last3, monthly_units_found, res
compute_call_engine ==
    /\ pc = "serving"
    /\ reader.at = "engine"
    /\ reader' = [at |-> "done", sku |-> reader.sku, found |-> TRUE,
                  prod |-> reader.prod, monthly_units_found |-> reader.monthly_units_found,
                  res |-> compute_from_last_months(
                              reader.prod.lead_time_days, reader.prod.z_value,
                              reader.monthly_units_found, reader.prod.fba_stock,
                              reader.prod.inbound_stock)]
    /\ UNCHANGED <<pc, call, res, cal, months_out, today, products, monthly_sales,
                   response, committed>>

\* the handler that called compute_for_sku answers and its thread is free
compute_return ==
    /\ pc = "serving"
    /\ reader.at = "done"
    /\ reader' = NoReader
    /\ committed' = {}
    /\ UNCHANGED <<pc, call, res, cal, months_out, today, products, monthly_sales,
                   response>>

\* an upsert request of another thread reaches its conn.commit()
ConcurrentUpsert ==
    /\ reader.at = "idle" \/ Cardinality(committed) < MaxSnapshots
    /\ \E fba \in SellerFba, rows \in BothMonthsRows :
          upsert("A", 1, R(1), fba, 0, Column(rows, "year", "none"),
                 Column(rows, "month", "none"), Column(rows, "units_sold", "none"))

ComputeFetchProduct == \E sku \in SKUS : compute_fetch_product(sku)

ComputeFetchMonth == compute_fetch_month

ComputeCallEngine == compute_call_engine

ComputeReturn == compute_return

NextConc ==
    \/ ConcurrentUpsert
    \/ ComputeFetchProduct
    \/ ComputeFetchMonth
    \/ ComputeCallEngine
    \/ ComputeReturn

ConcSpec == Init /\ [][NextConc]_vars

(***************************************************************************)
(* Properties of the engine, checked under EngineSpec.                     *)
(***************************************************************************)
EngineDone == pc = "engine_done"

\* the worked examples: [90] with lead time 30, and [60, 90, 120] with lead
\* time 14, both with z = 1.65 and no stock
Example90 == compute_from_last_months(30, Rat(165, 100), <<90>>, 0, 0)

Example6090120 == compute_from_last_months(14, Rat(165, 100), <<60, 90, 120>>, 0, 0)

EngineReturned == pc = "engine_done" /\ res.status = "ok"

IsZero(x) == x.q = 0 /\ x.c = 0

\* C1: when the list of observed monthly units is empty, the engine returns
\* all five metrics equal to 0, whatever the lead time, service coefficient
\* and stocks are.
C1_EmptyHistoryAllZero ==
    (EngineDone /\ Len(call.monthly_units) = 0) =>
        /\ res.status = "ok"
        /\ IsZero(res.daily_velocity)
        /\ IsZero(res.std_daily)
        /\ IsZero(res.safety_stock)
        /\ IsZero(res.rop)
        /\ IsZero(res.order_qty)

C1_Witness ==
    /\ EngineReturned
    /\ Len(call.monthly_units) = 0
    /\ call.lead_time < 0
    /\ call.fba_stock > 0
    /\ RSign(call.z) > 0

\* C2 (as claimed): for every non-empty input the engine returns for, the
\* safety stock is serviceCoefficient * stdDaily * sqrt(max(1, leadTimeDays)).
C2_SafetyStockFlooredLeadTime ==
    (EngineReturned /\ Len(call.monthly_units) > 0) =>
        res.safety_stock =
            RMul(RMul(call.z, res.std_daily),
                 RSqrt(R(IF call.lead_time < 1 THEN 1 ELSE call.lead_time)))

\* C3: for every non-empty input the engine returns for, order_qty is
\* max(0, dailyVelocity * 60 + safetyStock - (fbaStock + inboundStock)):
\* never negative, and 0 whenever the stocks cover the 60-day demand plus the
\* safety stock; [90], lead time 30, z 1.65, no stock gives 180.
C3_OrderQuantity ==
    /\ (EngineReturned /\ Len(call.monthly_units) > 0) =>
          LET need == RSub(RAdd(RMul(res.daily_velocity, R(60)), res.safety_stock),
                           R(call.fba_stock + call.inbound_stock))
          IN  /\ RSign(res.order_qty) >= 0
              /\ RSign(need) > 0 => res.order_qty = need
              /\ RSign(need) <= 0 => IsZero(res.order_qty)
    /\ Example90.order_qty = R(180)

C3_Witness ==
    /\ EngineReturned
    /\ RSign(res.daily_velocity) > 0
    /\ RSign(res.safety_stock) > 0
    /\ IsZero(res.order_qty)
    /\ RSign(RSub(RAdd(RMul(res.daily_velocity, R(60)), res.safety_stock),
                  R(call.fba_stock + call.inbound_stock))) < 0

\* sum of the squares of the elements of s
RECURSIVE SumSquares(_)
SumSquares(s) == IF s = <<>> THEN 0 ELSE Head(s) * Head(s) + SumSquares(Tail(s))

\* C6: for every non-empty list, dailyVelocity is the arithmetic mean of the
\* list divided by a fixed 30 days: dailyVelocity * 30 * n is the sum of the
\* list; [90] gives 3 and [60, 90, 120] gives 3.
C6_DailyVelocity ==
    /\ (EngineReturned /\ Len(call.monthly_units) > 0) =>
          RMul(res.daily_velocity, R(30 * Len(call.monthly_units)))
              = R(SumSeq(call.monthly_units))
    /\ Example90.daily_velocity = R(3)
    /\ Example6090120.daily_velocity = R(3)

C6_Witness ==
    /\ EngineReturned
    /\ Len(call.monthly_units) = 3
    /\ call.monthly_units[1] < call.monthly_units[2]
    /\ call.monthly_units[3] < call.monthly_units[1]
    /\ res.daily_velocity = Rat(1, 30)

\* C7: with exactly one observation stdDaily is 0, the safety stock is 0 and
\* the reorder point is dailyVelocity * leadTimeDays; with two or more
\* observations stdDaily is the sample standard deviation (n - 1 denominator)
\* of the monthly values divided by 30: it is not negative and
\* (30 * stdDaily)^2 * (n - 1) is the sum of squared deviations from the mean;
\* [60, 90, 120] gives stdDaily = 1.
C7_StdDaily ==
    /\ (EngineReturned /\ Len(call.monthly_units) = 1) =>
          /\ IsZero(res.std_daily)
          /\ IsZero(res.safety_stock)
          /\ res.rop = RMul(res.daily_velocity, R(call.lead_time))
    /\ (EngineReturned /\ Len(call.monthly_units) >= 2) =>
          LET n   == Len(call.monthly_units)
              s   == SumSeq(call.monthly_units)
              sd  == RMul(R(30), res.std_daily)
          IN  /\ RSign(res.std_daily) >= 0
              /\ RMul(RMul(sd, sd), R(n - 1))
                    = RSub(R(SumSquares(call.monthly_units)), Rat(s * s, n))
    /\ Example6090120.std_daily = R(1)

C7_Witness ==
    /\ EngineReturned
    /\ Len(call.monthly_units) = 3
    /\ ~IsRational(res.std_daily)
    /\ RSign(res.safety_stock) > 0

\* C8: for every non-empty input the engine returns for, the reorder point is
\* dailyVelocity * leadTimeDays + safetyStock, with the lead time as given;
\* [90] with lead time 30 gives 90.
C8_ReorderPoint ==
    /\ (EngineReturned /\ Len(call.monthly_units) > 0) =>
          res.rop = RAdd(RMul(R(call.lead_time), res.daily_velocity), res.safety_stock)
    /\ Example90.rop = R(90)

C8_Witness ==
    /\ EngineReturned
    /\ call.lead_time = 2
    /\ RSign(res.safety_stock) > 0
    /\ RSign(res.daily_velocity) > 0
    /\ RLess(res.safety_stock, res.rop)

WellTyped == call.lead_time >= 1 /\ call.fba_stock >= 0 /\ call.inbound_stock >= 0
             /\ \A i \in 1 .. Len(call.monthly_units) : call.monthly_units[i] >= 0

\* C9 (as claimed): all five outputs are >= 0 for every well-typed input,
\* the service coefficient being any real number, negative values included.
C9_AllOutputsNonNegative ==
    (EngineDone /\ WellTyped) =>
        /\ res.status = "ok"
        /\ RSign(res.daily_velocity) >= 0
        /\ RSign(res.std_daily) >= 0
        /\ RSign(res.safety_stock) >= 0
        /\ RSign(res.rop) >= 0
        /\ RSign(res.order_qty) >= 0

\* C9 (amended): for every well-typed input dailyVelocity, stdDaily and
\* orderQuantity are >= 0 whatever the service coefficient is; safetyStock and
\* reorderPoint are >= 0 when the service coefficient is >= 0.
C9_NonNegativeForNonNegativeZ ==
    (EngineDone /\ WellTyped) =>
        /\ res.status = "ok"
        /\ RSign(res.daily_velocity) >= 0
        /\ RSign(res.std_daily) >= 0
        /\ RSign(res.order_qty) >= 0
        /\ RSign(call.z) >= 0 => (RSign(res.safety_stock) >= 0 /\ RSign(res.rop) >= 0)

C9_Witness ==
    /\ EngineReturned
    /\ WellTyped
    /\ RSign(call.z) > 0
    /\ RSign(res.std_daily) > 0
    /\ RSign(res.safety_stock) > 0
    /\ RSign(res.rop) > 0
    /\ IsZero(res.order_qty)

\* C10 (as claimed): the engine never raises: for every integer lead time,
\* 0 and negative values included, and every list of non-negative monthly
\* units it returns a five-metric result.
C10_EngineNeverRaises == EngineDone => res.status = "ok"

(***************************************************************************)
(* Properties of the resolver, checked under CalendarSpec.                 *)
(***************************************************************************)
\* C5: called with n on a day of (year Y, month M), the resolver returns
\* exactly n (year, month) pairs; the first is (Y, M), each next one is the
\* calendar month just before, the month before January of year y being
\* December of year y - 1, and every month is in 1..12; n = 3 in January 2024
\* yields (2024,1), (2023,12), (2023,11).
C5_LastNCalendarMonths ==
    /\ pc = "calendar_done" =>
          /\ Len(months_out) = cal.n
          /\ cal.n >= 1 => months_out[1] = cal.day
          /\ \A i \in 1 .. Len(months_out) : months_out[i][2] \in 1 .. 12
          /\ \A i \in 1 .. Len(months_out) - 1 :
                /\ MonthIndex(months_out[i + 1]) = MonthIndex(months_out[i]) - 1
                /\ months_out[i][2] = 1 =>
                      months_out[i + 1] = <<months_out[i][1] - 1, 12>>
    /\ last_n_calendar_months(3, <<2024, 1>>) = <<<<2024, 1>>, <<2023, 12>>, <<2023, 11>>>>

C5_Witness ==
    /\ pc = "calendar_done"
    /\ cal.n = 3
    /\ cal.day = <<2024, 1>>
    /\ months_out = <<<<2024, 1>>, <<2023, 12>>, <<2023, 11>>>>

(***************************************************************************)
(* Properties of the caller, checked under Spec.                           *)
(***************************************************************************)
\* the month k months before day
MonthsBack(day, k) ==
    <<(MonthIndex(day) - k) \div 12, ((MonthIndex(day) - k) % 12) + 1>>

RowsOf(sku, ym) ==
    {r \in monthly_sales : r.sku = sku /\ r.year = ym[1] /\ r.month = ym[2]}

\* the stored units of the recorded months among day's month and the two
\* before it, newest first
RecordedWindowUnits(sku, day) ==
    LET at(k) == IF RowsOf(sku, MonthsBack(day, k)) = {} THEN <<>>
                 ELSE <<(CHOOSE r \in RowsOf(sku, MonthsBack(day, k)) : TRUE).units_sold>>
    IN  at(0) \o at(1) \o at(2)

\* C4: the list compute_for_sku passes to the engine is exactly the stored
\* units_sold of those of the last 3 calendar months, the current one
\* included, that have a record for the SKU, newest first: a month with no
\* record adds no element, a month recorded with 0 adds the element 0, and
\* records outside the window add nothing.
C4_WindowUnitsPassed ==
    [][\A sku \in SKUS :
          (/\ response'.kind \in {"detail", "not_found", "error"}
           /\ product_detail(sku)
           /\ compute_for_sku(sku, today).found) =>
              /\ compute_for_sku(sku, today).monthly_units_found
                    = RecordedWindowUnits(sku, today)
              /\ response'.kind = "detail" =>
                    response'.monthly_found = RecordedWindowUnits(sku, today)]_vars

C4_Witness ==
    /\ today = <<2024, 2>>
    /\ response.kind = "detail"
    /\ response.last3 = <<<<2024, 2>>, <<2024, 1>>, <<2023, 12>>>>
    /\ response.monthly_found = <<0, 2>>
    /\ response.monthly_found = RecordedWindowUnits(response.sku, today)
    /\ RowsOf(response.sku, <<2024, 2>>) = {}
    /\ \E r \in RowsOf(response.sku, <<2024, 1>>) : r.units_sold = 0
    /\ \E r \in RowsOf(response.sku, <<2023, 11>>) : r.units_sold = 2
    /\ response.units6[6] = 0

(***************************************************************************)
(* Relational properties of the engine, checked under EngineSpec.          *)
(***************************************************************************)
\* the engine on the call's inputs with other stocks
WithStocks(fba, inb) ==
    compute_from_last_months(call.lead_time, call.z, call.monthly_units, fba, inb)

\* C11: with lead time, service coefficient and monthly units held fixed,
\* order_qty does not rise when fbaStock or inboundStock rises by one, and
\* moving one unit from one stock to the other leaves it unchanged; over all
\* inputs this makes order_qty non-increasing in each stock and a function of
\* their sum.
C11_OrderQtyMonotoneInStock ==
    EngineReturned =>
        LET more_fba == WithStocks(call.fba_stock + 1, call.inbound_stock)
            more_inb == WithStocks(call.fba_stock, call.inbound_stock + 1)
        IN  /\ more_fba.status = "ok" /\ more_inb.status = "ok"
            /\ RLeq(more_fba.order_qty, res.order_qty)
            /\ RLeq(more_inb.order_qty, res.order_qty)
            /\ more_fba.order_qty = more_inb.order_qty

C11_Witness ==
    /\ EngineReturned
    /\ call.fba_stock > 0
    /\ call.inbound_stock > 0
    /\ RSign(res.order_qty) > 0
    /\ RLess(WithStocks(call.fba_stock, call.inbound_stock + 1).order_qty, res.order_qty)
    /\ RSign(WithStocks(call.fba_stock + 1, call.inbound_stock + 1).order_qty) = 0

\* s with its elements at i and i + 1 exchanged
SwapAt(s, i) ==
    [k \in 1 .. Len(s) |-> IF k = i THEN s[i + 1] ELSE IF k = i + 1 THEN s[i] ELSE s[k]]

\* the engine on the call's inputs with another list of monthly units
WithUnits(units) ==
    compute_from_last_months(call.lead_time, call.z, units, call.fba_stock,
                             call.inbound_stock)

\* C12: exchanging two neighbouring elements of the monthly units list, or
\* reversing the list, changes none of the five metrics; the exchanges of
\* neighbours generate every permutation, so over all inputs the result
\* depends only on the multiset of the observed values.
C12_OrderIndependent ==
    EngineReturned =>
        /\ \A i \in 1 .. Len(call.monthly_units) - 1 :
              WithUnits(SwapAt(call.monthly_units, i)) = res
        /\ WithUnits(Reverse(call.monthly_units)).std_daily = res.std_daily

C12_Witness ==
    /\ EngineReturned
    /\ Len(call.monthly_units) = 3
    /\ call.monthly_units[1] # call.monthly_units[2]
    /\ call.monthly_units[1] # call.monthly_units[3]
    /\ ~IsRational(res.std_daily)
    /\ RSign(res.order_qty) > 0
    /\ WithUnits(SwapAt(call.monthly_units, 1)) = res
    /\ WithUnits(SwapAt(call.monthly_units, 2)) = res

(***************************************************************************)
(* Properties of the store, checked under SellersSpec and Spec.            *)
(***************************************************************************)
OneRowPerKey(M) ==
    \A r1 \in M, r2 \in M :
        (r1.sku = r2.sku /\ r1.year = r2.year /\ r1.month = r2.month) => r1 = r2

\* C13: the store holds at most one sales observation per (owner, SKU, year,
\* month), and an upsert by one owner leaves the observations of every other
\* identity, hence of every other owner, unchanged.
C13_OneObservationPerIdentity ==
    [][\A a \in OWNERS :
          UpsertAs(a) =>
              /\ OneRowPerKey(monthly_sales')
              /\ \A b \in OWNERS \ {a}, sku \in SellerSKUS, d \in SellerMonths :
                    observation(b, sku, d[1], d[2])' = observation(b, sku, d[1], d[2])]_vars

\* what the zip loop must leave in the table: for every key the request lists,
\* one row carrying the units of the last listed row with that key; every
\* other row as it was
ExpectedSales(M, sku, rows) ==
    LET listed(r) == \E i \in 1 .. Len(rows) :
                        rows[i].year = r.year /\ rows[i].month = r.month
        last(i)   == \A j \in (i + 1) .. Len(rows) :
                        ~(rows[j].year = rows[i].year /\ rows[j].month = rows[i].month)
    IN  {r \in M : ~(r.sku = sku /\ listed(r))}
            \cup {[sku |-> sku, year |-> rows[i].year, month |-> rows[i].month,
                   units_sold |-> rows[i].units_sold] : i \in {j \in 1 .. Len(rows) : last(j)}}

\* Seen without owners, the upsert keeps one row per (sku, year, month), the
\* last listed row of a request wins, and rows of other keys are untouched.
UpsertLastRowWins ==
    /\ OneRowPerKey(monthly_sales)
    /\ \A sku \in SKUS, lt \in FormLeadTimes, fba \in FormFba, rows \in FormRowLists :
          ~ENABLED (/\ upsert(sku, lt, R(1), fba, 0, Column(rows, "year", "none"),
                              Column(rows, "month", "none"),
                              Column(rows, "units_sold", "none"))
                    /\ monthly_sales' # ExpectedSales(monthly_sales, sku, rows))

\* C14: an upsert sent by owner a for a SKU string neither creates nor changes
\* the product parameters, the observations or the metrics that any other
\* owner b is shown for that SKU string.
C14_OwnerIsolation ==
    [][\A a \in OWNERS :
          UpsertAs(a) =>
              \A b \in OWNERS \ {a}, sku \in SellerSKUS :
                  /\ product_of(b, sku)' = product_of(b, sku)
                  /\ visible_to(b, sku)' = visible_to(b, sku)]_vars

\* the metrics of sku derived from the stored rows alone
DerivedMetrics(sku, day) ==
    LET p == CHOOSE r \in products : r.sku = sku
    IN  compute_from_last_months(p.lead_time_days, p.z_value,
                                 RecordedWindowUnits(sku, day),
                                 p.fba_stock, p.inbound_stock)

\* C15: every computation of a SKU's metrics leaves the store as it was and
\* returns the engine's value on the product parameters and window
\* observations stored at that moment; a computation that follows another for
\* the same SKU and month with no write in between returns the same metrics.
C15_MetricsDerivedFromStore ==
    [][\A sku \in SKUS :
          (/\ response'.kind \in {"detail", "not_found", "error"}
           /\ product_detail(sku)) =>
              /\ UNCHANGED <<products, monthly_sales>>
              /\ response'.kind = "detail" =>
                    /\ response'.res = DerivedMetrics(sku, today)
                    /\ (/\ response.kind = "detail"
                        /\ response.sku = sku
                        /\ response.last3 = response'.last3) =>
                            response'.res = response.res]_vars

C15_Witness ==
    /\ response.kind = "detail"
    /\ today = <<2024, 2>>
    /\ response.last3[1] = today
    /\ ~IsRational(response.res.safety_stock)
    /\ RSign(response.res.order_qty) > 0
    /\ response.res = DerivedMetrics(response.sku, today)
    /\ Cardinality(monthly_sales) = 3

\* C17: after any sequence of upsert requests every stored product has
\* lead_time_days >= 1, fba_stock >= 0 and inbound_stock >= 0, and every
\* stored observation has units_sold >= 0.
C17_StoredInputsValidated ==
    /\ \A p \in products :
          p.lead_time_days >= 1 /\ p.fba_stock >= 0 /\ p.inbound_stock >= 0
    /\ \A r \in monthly_sales : r.units_sold >= 0

\* the lists of a request sent with rows, one of them a value longer when
\* longer names it
handled(sku, lt, fba, rows, longer) ==
    upsert(sku, lt, R(1), fba, 0, Column(rows, "year", longer),
           Column(rows, "month", longer), Column(rows, "units_sold", longer))

\* C19: in every state, an upsert request whose year, month and units_sold
\* lists differ in length is answered, and only with status 400 and the store
\* unchanged; a request whose lists match is answered only with the redirect,
\* and that one step stores the product parameters, leaves other products
\* alone and stores one observation for every listed row.
C19_UpsertAllOrNothing ==
    /\ \A sku \in SKUS, lt \in FormLeadTimes, fba \in FormFba,
          rows \in {r \in FormRowLists : Len(r) = 1},
          longer \in {"none", "year", "month", "units_sold"} :
            /\ ENABLED handled(sku, lt, fba, rows, longer)
            /\ longer # "none" =>
                  ~ENABLED (/\ handled(sku, lt, fba, rows, longer)
                            /\ ~(/\ response' = [kind |-> "error", status_code |-> 400]
                                 /\ UNCHANGED <<products, monthly_sales>>))
            /\ longer = "none" =>
                  ~ENABLED (/\ handled(sku, lt, fba, rows, longer)
                            /\ ~(/\ response'.kind = "redirect"
                                 /\ fetch_product(sku)'.val
                                       = [sku |-> sku, lead_time_days |-> lt,
                                          z_value |-> R(1), fba_stock |-> fba,
                                          inbound_stock |-> 0]
                                 /\ \A r \in products' : r.sku # sku => r \in products
                                 /\ [sku |-> sku, year |-> rows[1].year,
                                     month |-> rows[1].month,
                                     units_sold |-> rows[1].units_sold]
                                       \in monthly_sales'))
    /\ \A sku \in SKUS, rows \in FormRowLists :
          ~ENABLED (/\ handled(sku, 1, 0, rows, "none")
                    /\ ~(/\ response' = [kind |-> "redirect", status_code |-> 303,
                                         sku |-> sku]
                         /\ \E p \in products' : p.sku = sku
                         /\ monthly_sales' = ExpectedSales(monthly_sales, sku, rows)))

C19_Witness ==
    /\ response = [kind |-> "error", status_code |-> 400]
    /\ \E p \in products : p.fba_stock = 3
    /\ Cardinality(monthly_sales) = 3
    /\ \E r \in monthly_sales : r.units_sold = 2

(***************************************************************************)
(* Properties of the plan page and the plan export, under SellersSpec.     *)
(***************************************************************************)
Skus(rows) == {r.sku : r \in rows}

\* some stored SKU's computation raises
ComputeRaises == \E p \in products : DerivedMetrics(p.sku, today).status # "ok"

\* the stored SKUs whose order quantity is greater than 0
PositiveOrderSkus ==
    {p.sku : p \in {q \in products : RSign(DerivedMetrics(q.sku, today).order_qty) > 0}}

\* the stored SKUs whose order quantity is greater than one half
RoundedPositiveSkus ==
    {p.sku : p \in {q \in products :
                       RLess(Rat(1, 2), DerivedMetrics(q.sku, today).order_qty)}}

\* C18 as stated, for a store whose lead times are all at least 1: the plan
\* page and the plan export list exactly the stored SKUs whose order_qty is
\* greater than 0.
C18_PlanListsPositiveOrders ==
    [][(/\ \A p \in products : p.lead_time_days >= 1
        /\ response'.kind \in {"plan", "plan_export"}
        /\ plan \/ export_plan_xlsx) =>
            Skus(response'.rows) = PositiveOrderSkus]_vars

\* the rows both listings must show
ExpectedPlanRows ==
    {[sku |-> s, order_qty |-> round(DerivedMetrics(s, today).order_qty)] :
        s \in RoundedPositiveSkus}

\* C18, amended: when no stored SKU's computation raises, the plan page and
\* the plan export answer with exactly the stored SKUs whose order_qty rounds
\* to a positive integer, that is whose order_qty exceeds one half, each with
\* its rounded quantity, and so with the same SKUs as each other; when some
\* computation raises, both answer with status 500 and list nothing.
C18_PlanListsRoundedPositiveOrders ==
    [][/\ (/\ response'.kind \in {"plan", "error"}
           /\ plan) =>
              response' = IF ComputeRaises
                          THEN [kind |-> "error", status_code |-> 500]
                          ELSE [kind |-> "plan", rows |-> ExpectedPlanRows]
       /\ (/\ response'.kind \in {"plan_export", "error"}
           /\ export_plan_xlsx) =>
              response' = IF ComputeRaises
                          THEN [kind |-> "error", status_code |-> 500]
                          ELSE [kind |-> "plan_export", rows |-> ExpectedPlanRows]
       /\ response'.kind \in {"plan", "plan_export"} =>
              \A r \in response'.rows : r.order_qty >= 1]_vars

C18_Witness ==
    /\ response.kind = "plan_export"
    /\ Cardinality(products) = 2
    /\ \E p \in products, q \in products :
          /\ p.sku \in Skus(response.rows)
          /\ q.sku \notin Skus(response.rows)
          /\ RSign(DerivedMetrics(q.sku, today).order_qty) > 0
          /\ [sku |-> p.sku, order_qty |-> 2] \in response.rows

(***************************************************************************)
(* Properties of a computation among concurrent upserts, under ConcSpec.   *)
(***************************************************************************)
\* the recorded units of sku in the months of window, as the table M holds them
RECURSIVE WindowUnitsIn(_, _, _)
WindowUnitsIn(M, sku, window) ==
    IF window = <<>> THEN <<>>
    ELSE LET rows == {r \in M : /\ r.sku = sku
                                /\ r.year = Head(window)[1]
                                /\ r.month = Head(window)[2]}
         IN  (IF rows = {} THEN <<>> ELSE <<(CHOOSE r \in rows : TRUE).units_sold>>)
                 \o WindowUnitsIn(M, sku, Tail(window))

\* C16: the product parameters and the list of monthly units that one
\* compute_for_sku call passes to the engine are those of one single committed
\* state of the store among the states the call ran against.
C16_ConsistentSnapshot ==
    (reader.at = "done" /\ reader.found) =>
        \E s \in committed :
            /\ reader.prod \in s.products
            /\ reader.monthly_units_found
                  = WindowUnitsIn(s.monthly_sales, reader.sku,
                                  last_n_calendar_months(WindowMonths, today))

====
